---- MODULE Spec2Model ----
(***************************************************************************)
(* Rental bidding tool: the three-player expectiminimax search             *)
(* (algorithm/expectiminimax_landlord.py), the landlord model              *)
(* (algorithm/landlord_model.py), the payoff functions (models/payoff.py), *)
(* the competitor bid distribution (models/distributions.py) and the       *)
(* strategy generator (analysis/strategy.py).                              *)
(*                                                                         *)
(* Number representation.  The program computes in binary floating point;  *)
(* the model computes in fixed point over the integers:                    *)
(*   - money (bids, prices, budgets) is in whole dollars; a value the      *)
(*     program computes as a fraction of a dollar (a linspace sample) is   *)
(*     rounded to the nearest dollar when it becomes a bid;                *)
(*   - payoffs and probabilities are in units of 1/ONE (1.0 = ONE);        *)
(*   - landlord thresholds are exact, in units of 1/TEN7;                  *)
(*   - risk_tolerance is in tenths (1.5 = 15);                             *)
(*   - market median, sigma and skew are in thousandths (0.94 = 940);      *)
(*   - +inf, -inf and nan are the distinguished values PosInf, NegInf and  *)
(*     NaN, with IEEE-754 arithmetic and comparisons on them.              *)
(* Fixed point is exact where binary floating point rounds: a bid the      *)
(* program computes as 1999.9999999999998 (0.94 - 0.02 + 0.08 times 2000)  *)
(* is 2000 here, and payoffs agree with the program's to about 1/1000.     *)
(***************************************************************************)
EXTENDS Integers, Sequences, FiniteSets, TLC

\* float 1.0 in the fixed-point representation of payoffs and probabilities
ONE == 10000

\* unit of the landlord thresholds (products of three decimal factors)
TEN7 == 1000 * ONE

\* Python's None for an optional number (bids and prices are positive)
None == 0 - 1

\* float('inf'), float('-inf') and nan
PosInf == 100000 * ONE
NegInf == 0 - PosInf
NaN == 2 * PosInf

\* config/constants.py
TREE_DEPTH == 4
NUM_BID_SAMPLES == 20
PROBABILITY_THRESHOLD == 100
PROPERTY_VALUE_WEIGHT == 10000
OVERPAYMENT_WEIGHT == 6000
BUDGET_FLEXIBILITY == 1000

----------------------------------------------------------------------------
(* Floating-point helpers *)

IsNaN(x) == x = NaN

IsInf(x) == x = PosInf \/ x = NegInf

IsFinite(x) == ~IsNaN(x) /\ ~IsInf(x)

\* a < b on floats: false when either side is nan
FLt(a, b) == ~IsNaN(a) /\ ~IsNaN(b) /\ a < b

\* a <= b on floats
FLe(a, b) == ~IsNaN(a) /\ ~IsNaN(b) /\ a <= b

\* Python max(a, b): b only if b > a
FMax(a, b) == IF FLt(a, b) THEN b ELSE a

\* Python min(a, b): b only if b < a
FMin(a, b) == IF FLt(b, a) THEN b ELSE a

\* a + b on floats
FAdd(a, b) ==
    IF IsNaN(a) \/ IsNaN(b) THEN NaN
    ELSE IF IsInf(a) /\ IsInf(b) THEN (IF a = b THEN a ELSE NaN)
    ELSE IF IsInf(a) THEN a
    ELSE IF IsInf(b) THEN b
    ELSE a + b

\* p * v on floats, p a finite probability >= 0 in units of 1/ONE
FMulProb(p, v) ==
    IF IsNaN(v) THEN NaN
    ELSE IF IsInf(v) THEN (IF p = 0 THEN NaN ELSE v)
    ELSE (p * v) \div ONE

\* max(-1.0, min(1.0, x)) for a finite x
Clamp(x) == IF x > ONE THEN ONE ELSE IF x < 0 - ONE THEN 0 - ONE ELSE x

Abs(x) == IF x < 0 THEN 0 - x ELSE x

Max2(a, b) == IF a >= b THEN a ELSE b

Min2(a, b) == IF a <= b THEN a ELSE b

\* Python truthiness of an optional number: neither None nor 0
Truthy(x) == x # None /\ x # 0

\* amount / price >= t / TEN7, exactly (amount, price > 0 in dollars)
RatioGe(amount, price, t) ==
    LET hi == t \div 1000
        lo == t % 1000
        d  == amount * ONE - price * hi
    IN  IF d < 0 THEN FALSE
        ELSE IF d >= price THEN TRUE
        ELSE d * 1000 >= price * lo

\* numpy.linspace(lo, hi, num)[i-1], i in 1..num, lo and hi in 1/unit dollars,
\* as a bid in whole dollars (nearest)
LinspacePoint(lo, hi, num, i, unit) ==
    LET x == lo + ((i - 1) * (hi - lo)) \div (num - 1)
    IN  (x + unit \div 2) \div unit

Linspace(lo, hi, num, unit) ==
    [i \in 1..num |-> LinspacePoint(lo, hi, num, i, unit)]

----------------------------------------------------------------------------
(* Market parameters (config/market_data.py) and classification *)

\* market_params['parameters'] per market, in thousandths.  "downtown" and
\* "burnaby" are the presets of config/market_data.py; "cooling", "balanced"
\* and "very_hot" are valid parameter sets, one for each remaining regime;
\* "steep" is a valid parameter set at the edge of the asserted ranges, whose
\* bid range runs downwards (its lower bound 1.49 is above the upper bound 1.30);
\* "out_of_range" is a parameter set a caller can build whose median is above
\* the range validate_market_parameters asserts.
MarketParameters ==
    [ downtown     |-> [median |-> 940,  sigma |-> 50,  skew |-> 100],
      burnaby      |-> [median |-> 920,  sigma |-> 60,  skew |-> 50],
      cooling      |-> [median |-> 980,  sigma |-> 80,  skew |-> 100],
      balanced     |-> [median |-> 1000, sigma |-> 80,  skew |-> 100],
      very_hot     |-> [median |-> 1080, sigma |-> 120, skew |-> 200],
      steep        |-> [median |-> 1500, sigma |-> 10,  skew |-> 100],
      out_of_range |-> [median |-> 1600, sigma |-> 80,  skew |-> 100] ]

\* the three range assertions of validate_market_parameters: TRUE when none fails
validate_market_parameters(market_params) ==
    LET params == MarketParameters[market_params]
    IN  /\ 500 <= params.median /\ params.median <= 1500
        /\ 10 <= params.sigma /\ params.sigma <= 500
        /\ 0 - 1000 <= params.skew /\ params.skew <= 1000

\* the markets whose parameters pass validation
MarketNames == {m \in DOMAIN MarketParameters : validate_market_parameters(m)}

classify_market_conditions(market_params) ==
    LET median == MarketParameters[market_params].median
        sigma  == MarketParameters[market_params].sigma
    IN  IF median < 950 /\ sigma < 80 THEN "very_cool"
        ELSE IF median < 1000 THEN "cooling"
        ELSE IF median > 1050 /\ sigma > 100 THEN "very_hot"
        ELSE "balanced"

----------------------------------------------------------------------------
(* Landlord profile (algorithm/landlord_model.py) *)

\* a desperation that is spent as the listing ages, in hundredths
calculate_desperation_falling(days_on_market) ==
    IF days_on_market < 3 THEN 95
    ELSE IF days_on_market < 7 THEN 80
    ELSE IF days_on_market < 14 THEN 60
    ELSE IF days_on_market < 30 THEN 30
    ELSE 10

\* desperation_factor, in hundredths
calculate_desperation(days_on_market) ==
    IF days_on_market < 3 THEN 10
    ELSE IF days_on_market < 7 THEN 30
    ELSE IF days_on_market < 14 THEN 60
    ELSE IF days_on_market < 30 THEN 80
    ELSE 95

\* acceptance_threshold, in units of 1/TEN7:
\* max(0.90, base * (1 - 0.1 * desperation) * (1 - 0.05 * (sensitivity - 2)))
calculate_acceptance_threshold(days_on_market, market_condition, price_sensitivity) ==
    LET base_threshold ==
            CASE market_condition = "very_hot"  -> 105
              [] market_condition = "balanced"  -> 100
              [] market_condition = "cooling"   -> 98
              [] market_condition = "very_cool" -> 95
        threshold == base_threshold
                     * (1000 - calculate_desperation(days_on_market))
                     * (100 - 5 * (price_sensitivity - 2))
    IN  Max2((90 * TEN7) \div 100, threshold)

calculate_rejection_threshold(acceptance_threshold) ==
    acceptance_threshold - (10 * TEN7) \div 100

LandlordProfile(days_on_market, market_condition, price_sensitivity) ==
    LET acc == calculate_acceptance_threshold(days_on_market, market_condition,
                                              price_sensitivity)
    IN  [ days_on_market       |-> days_on_market,
          market_condition     |-> market_condition,
          price_sensitivity    |-> price_sensitivity,
          desperation_factor   |-> calculate_desperation(days_on_market),
          acceptance_threshold |-> acc,
          rejection_threshold  |-> calculate_rejection_threshold(acc) ]

----------------------------------------------------------------------------
(* Game state (algorithm/game_state.py) *)

\* GameState.days_on_market
days_on_market(state) ==
    IF state.round = 3 THEN state.base_days + 3 ELSE state.base_days

\* the LandlordProfile every caller builds from a state
ProfileOf(state) ==
    LandlordProfile(days_on_market(state),
                    classify_market_conditions(state.market_params),
                    state.price_sens_landlord)

\* GameState(...) as main.create_game_state and the tests construct it
GameState(market, listing, budget, navg, days, sens, level, value, risk, rnd) ==
    [ max_budget |-> budget, property_value |-> value,
      listing_price |-> listing, neighborhood_avg |-> navg, base_days |-> days,
      price_sens_landlord |-> sens, competitive_level |-> level,
      market_params |-> market,
      round |-> rnd,
      property_value_weight |-> PROPERTY_VALUE_WEIGHT,
      overpayment_weight |-> OVERPAYMENT_WEIGHT,
      user_bid |-> None, highest_competitor_bid |-> None,
      landlord_feedback |-> "None", landlord_final_decision |-> "None",
      counter_price |-> None, previous_bid |-> None,
      all_final_bids_submitted |-> FALSE, competitor_increase_forced |-> FALSE,
      min_increase |-> None, won_property |-> FALSE,
      risk_tolerance |-> risk, negotiation_cost |-> 500 ]

----------------------------------------------------------------------------
(* Fair market value (models/payoff.py), in cents *)

\* a discount that grows with the days on market, in hundredths
get_staleness_discount_rising(days, market_condition) ==
    IF days <= 7 THEN 85
    ELSE IF days <= 14 THEN 90
    ELSE IF days <= 30 THEN 95
    ELSE 100

\* staleness discount, in hundredths
get_staleness_discount(days, market_condition) ==
    LET rates ==
            CASE market_condition = "very_cool" -> <<98, 95, 90, 85>>
              [] market_condition = "cooling"   -> <<99, 97, 93, 88>>
              [] market_condition = "balanced"  -> <<100, 98, 95, 92>>
              [] market_condition = "very_hot"  -> <<100, 99, 97, 95>>
    IN  IF days <= 7 THEN rates[1]
        ELSE IF days <= 14 THEN rates[2]
        ELSE IF days <= 30 THEN rates[3]
        ELSE rates[4]

calculate_fair_market_value(listing_price, neighborhood_avg, days, market_params) ==
    LET median    == MarketParameters[market_params].median
        condition == classify_market_conditions(market_params)
        \* market_implied_value = median * listing_price, in thousandths of a dollar
        implied   == median * listing_price
        \* base_value in cents
        base_value ==
            IF condition \in {"very_cool", "cooling"}
            THEN (4 * implied) \div 100 + 60 * neighborhood_avg
            ELSE (7 * implied) \div 100 + 30 * neighborhood_avg
    IN  (base_value * get_staleness_discount(days, condition)) \div 100

FairValueOf(state) ==
    calculate_fair_market_value(state.listing_price, state.neighborhood_avg,
                                days_on_market(state), state.market_params)

----------------------------------------------------------------------------
(* Competitor bid distribution (models/distributions.py, models/mixture.py) *)

\* get_dynamic_bid_range: (lower_bound, upper_bound) as ratios of the listing
\* price in units of 1/ONE
BidRangeRatios(market_params) ==
    LET p         == MarketParameters[market_params]
        condition == classify_market_conditions(market_params)
        \* lower_mult and upper_mult, in tenths
        mult == CASE condition = "very_cool" -> <<0 - 15, 20>>
                  [] condition = "cooling"   -> <<0 - 20, 25>>
                  [] condition = "balanced"  -> <<0 - 10, 30>>
                  [] condition = "very_hot"  -> <<0 - 5, 40>>
    IN  << Max2(8500, 10 * p.median + mult[1] * p.sigma),
           Min2(13000, 10 * p.median + mult[2] * p.sigma) >>

\* np.linspace(lower_bound, upper_bound, num=NUM_BID_SAMPLES), in dollars
get_dynamic_bid_range(listing_price, market_params) ==
    LET r == BidRangeRatios(market_params)
    IN  Linspace(r[1] * listing_price, r[2] * listing_price, NUM_BID_SAMPLES, ONE)

\* distribution.cdf(bid) of create_skewed_lognormal(median, sigma, skew) at the
\* NUM_BID_SAMPLES points of get_dynamic_bid_range, in units of 1/ONE.  The
\* log-normal CDF is scipy's; its values depend on the market parameters only
\* (the points and the median both scale with the listing price) and are
\* tabulated here: weight * Phi(ln(x/m)/s) + (1-weight) * Phi(ln(x/(1.1m))/(1.5s)),
\* weight = 0.8 - 0.3 * skew.
MixtureCdf ==
    [ downtown |-> <<391, 594, 867, 1217, 1646, 2152, 2723, 3343, 3991, 4645,
                     5283, 5886, 6440, 6936, 7370, 7745, 8064, 8333, 8561, 8754>>,
      burnaby  |-> <<791, 1100, 1480, 1930, 2444, 3010, 3613, 4236, 4860, 5467,
                     6042, 6573, 7053, 7478, 7848, 8166, 8436, 8664, 8857, 9020>>,
      cooling  |-> <<345, 569, 889, 1315, 1851, 2486, 3200, 3964, 4742, 5501,
                     6212, 6855, 7417, 7896, 8294, 8620, 8884, 9096, 9266, 9403>>,
      balanced |-> <<1301, 1805, 2400, 3069, 3787, 4526, 5256, 5951, 6590, 7160,
                     7654, 8074, 8425, 8712, 8947, 9138, 9292, 9418, 9522, 9607>>,
      very_hot |-> <<2861, 3244, 3640, 4042, 4447, 4849, 5244, 5629, 5999, 6353,
                     6687, 7001, 7292, 7562, 7810, 8036, 8242, 8428, 8595, 8746>>,
      steep    |-> <<1939, 691, 167, 26, 3, 0, 0, 0, 0, 0,
                     0, 0, 0, 0, 0, 0, 0, 0, 0, 0>> ]

\* single_bid_cdf ** num_competitors
PowCdf(c, n) ==
    IF n = 1 THEN c
    ELSE IF n = 2 THEN (c * c) \div ONE
    ELSE (((c * c) \div ONE) * c) \div ONE

\* the (unnormalised) probability masses of the maximum of N competitor bids
calculate_order_statistics(market_params, num_competitors) ==
    LET cdf == MixtureCdf[market_params]
    IN  [i \in 1..NUM_BID_SAMPLES |->
            IF i = 1 THEN Max2(0, PowCdf(cdf[1], num_competitors))
            ELSE Max2(0, PowCdf(cdf[i], num_competitors)
                         - PowCdf(cdf[i - 1], num_competitors))]

RECURSIVE SumSeq(_)
SumSeq(s) == IF s = <<>> THEN 0 ELSE Head(s) + SumSeq(Tail(s))

\* the masses as calculate_order_statistics returns them, not normalised
UnnormalizedProbabilities(market_params, competitive_level) ==
    calculate_order_statistics(market_params, competitive_level)

\* the normalised probabilities of get_competitor_bid_distribution
NormalizedProbabilities(market_params, competitive_level) ==
    LET num_competitors == competitive_level
        probabilities   == calculate_order_statistics(market_params, num_competitors)
        total           == SumSeq(probabilities)
    IN  IF total = 0
        THEN [i \in 1..NUM_BID_SAMPLES |-> ONE \div NUM_BID_SAMPLES]
        ELSE [i \in 1..NUM_BID_SAMPLES |-> (probabilities[i] * ONE) \div total]

\* the probabilities for every market and competitive level (they do not
\* depend on the listing price)
ProbabilityTable ==
    [m \in MarketNames |-> [n \in 1..3 |-> NormalizedProbabilities(m, n)]]

\* [(bid, probability), ...]
get_competitor_bid_distribution(state) ==
    LET bid_range == get_dynamic_bid_range(state.listing_price, state.market_params)
        probs     == ProbabilityTable[state.market_params][state.competitive_level]
    IN  [i \in 1..NUM_BID_SAMPLES |-> [bid |-> bid_range[i], prob |-> probs[i]]]

\* get_competitor_bid_distribution(state) raises: an assertion of
\* validate_market_parameters fails (line 19), or num_competitors_map has no
\* key state.competitive_level (line 43)
DistributionRaises(state) ==
    \/ ~validate_market_parameters(state.market_params)
    \/ state.competitive_level \notin 1..3

\* sum(prob for comp_bid, prob in competitor_dist if bid > comp_bid)
RECURSIVE ProbBelow(_, _, _)
ProbBelow(dist, bid, strict) ==
    IF dist = <<>> THEN 0
    ELSE (IF (strict /\ bid > Head(dist).bid) \/ (~strict /\ bid >= Head(dist).bid)
          THEN Head(dist).prob ELSE 0)
         + ProbBelow(Tail(dist), bid, strict)

----------------------------------------------------------------------------
(* Payoff (models/payoff.py) *)

\* (user_bid - fair_value) / listing_price, in units of 1/ONE
OverpaymentRatio(state) ==
    ((100 * state.user_bid - FairValueOf(state)) * ONE) \div (100 * state.listing_price)

heuristic_evaluation(state) ==
    IF ~Truthy(state.user_bid) THEN 0
    ELSE
    LET base_prob ==
            IF Truthy(state.highest_competitor_bid)
            THEN (IF state.user_bid > state.highest_competitor_bid THEN 7000
                  ELSE IF state.user_bid = state.highest_competitor_bid THEN 5000
                  ELSE 3000)
            ELSE ProbBelow(get_competitor_bid_distribution(state), state.user_bid, TRUE)
        landlord_profile == ProfileOf(state)
        win_prob ==
            IF RatioGe(state.user_bid, state.listing_price,
                       landlord_profile.acceptance_threshold)
            THEN (base_prob * 12) \div 10
            ELSE IF ~RatioGe(state.user_bid, state.listing_price,
                             landlord_profile.rejection_threshold)
            THEN (base_prob * 3) \div 10
            ELSE base_prob
        overpayment_penalty == 2 * OverpaymentRatio(state)
        property_value == (state.property_value * ONE) \div 5
        expected_value ==
            IF win_prob > 0
            THEN (win_prob * (property_value - overpayment_penalty)) \div ONE
            ELSE 0 - property_value \div 2
    IN  Clamp(expected_value)

\* evaluate with line 42 returning final_payoff itself, without max(-1.0, min(1.0, .))
evaluate_unclamped(state) ==
    IF state.landlord_final_decision = "accept_tenant" THEN
        LET normalized_property_value == (state.property_value * ONE) \div 5
            base_payoff == normalized_property_value
                - (OverpaymentRatio(state) * 2 * state.overpayment_weight) \div ONE
            competition_bonus == (ONE * state.competitive_level) \div 30
            round_penalty == state.negotiation_cost * (state.round - 1)
            risk == 100 + (state.risk_tolerance - 30)
        IN  ((base_payoff + competition_bonus - round_penalty) * risk) \div 100
    ELSE IF state.landlord_final_decision = "accept_competitor" THEN
        LET opportunity_cost == 0 - ((state.property_value * ONE) \div 5) \div 2
        IN  IF state.competitor_increase_forced
            THEN opportunity_cost + ONE \div 10
            ELSE opportunity_cost
    ELSE IF state.landlord_final_decision = "reject_all" THEN 0 - ONE \div 5
    ELSE heuristic_evaluation(state)

\* a payoff scaled by the weight the strategy puts on winning the property
evaluate_weighted(state) ==
    Clamp((evaluate_unclamped(state) * state.property_value_weight) \div ONE)

evaluate(state) ==
    IF state.landlord_final_decision = "accept_tenant" THEN
        LET normalized_property_value == (state.property_value * ONE) \div 5
            base_payoff == normalized_property_value
                - (OverpaymentRatio(state) * 2 * state.overpayment_weight) \div ONE
            competition_bonus == (ONE * state.competitive_level) \div 30
            round_penalty == state.negotiation_cost * (state.round - 1)
            \* 1 + risk_factor = 1 + (risk_tolerance - 3) / 10, in hundredths
            risk == 100 + (state.risk_tolerance - 30)
            final_payoff == ((base_payoff + competition_bonus - round_penalty) * risk)
                            \div 100
        IN  Clamp(final_payoff)
    ELSE IF state.landlord_final_decision = "accept_competitor" THEN
        LET opportunity_cost == 0 - ((state.property_value * ONE) \div 5) \div 2
        IN  IF state.competitor_increase_forced
            THEN opportunity_cost + ONE \div 10
            ELSE opportunity_cost
    ELSE IF state.landlord_final_decision = "reject_all" THEN 0 - ONE \div 5
    ELSE heuristic_evaluation(state)

----------------------------------------------------------------------------
(* Landlord actions (algorithm/landlord_model.py) *)

Action(type, bid, counter_price, min_increase) ==
    [type |-> type, bid |-> bid, counter_price |-> counter_price,
     min_increase |-> min_increase]

\* action['bid'] < landlord.acceptance_threshold * 1.02: a bid in dollars against
\* a ratio
BelowFirmLimit(bid, acceptance_threshold) ==
    LET limit == (acceptance_threshold * 102) \div 100
        ceil  == limit \div TEN7 + (IF limit % TEN7 > 0 THEN 1 ELSE 0)
    IN  bid < ceil

FilterKeeps(action, landlord) ==
    /\ ~(action.type = "reject_all" /\ landlord.desperation_factor > 70)
    /\ ~(/\ action.type \in {"accept_tenant", "accept_competitor"}
         /\ landlord.price_sensitivity = 1
         /\ BelowFirmLimit(action.bid, landlord.acceptance_threshold))

\* the filter without the fallback to the original list
filter_landlord_actions_without_fallback(actions, landlord) ==
    SelectSeq(actions, LAMBDA a : FilterKeeps(a, landlord))

filter_landlord_actions(actions, landlord) ==
    LET filtered == SelectSeq(actions, LAMBDA a : FilterKeeps(a, landlord))
    IN  IF filtered # <<>> THEN filtered ELSE actions

\* a landlord who accepts whatever the bids are, ties going to the competitor
get_landlord_actions_accept_unconditionally(state) ==
    IF state.user_bid = None THEN <<>>
    ELSE IF state.highest_competitor_bid # None
            /\ state.highest_competitor_bid >= state.user_bid
         THEN <<Action("accept_competitor", state.highest_competitor_bid, None, None)>>
         ELSE <<Action("accept_tenant", state.user_bid, None, None)>>

get_landlord_actions(state) ==
    LET tenant_bid     == state.user_bid
        competitor_bid == state.highest_competitor_bid
        asking_price   == state.listing_price
        landlord       == ProfileOf(state)
        highest_bid    == IF competitor_bid # None
                          THEN Max2(tenant_bid, competitor_bid) ELSE tenant_bid
        accept ==
            IF competitor_bid # None
            THEN IF RatioGe(highest_bid, asking_price, landlord.acceptance_threshold)
                 THEN IF tenant_bid >= competitor_bid
                      THEN <<Action("accept_tenant", tenant_bid, None, None)>>
                      ELSE <<Action("accept_competitor", competitor_bid, None, None)>>
                 ELSE <<>>
            ELSE IF RatioGe(tenant_bid, asking_price, landlord.acceptance_threshold)
                 THEN <<Action("accept_tenant", tenant_bid, None, None)>>
                 ELSE <<>>
        best_final ==
            IF /\ Truthy(competitor_bid) /\ Truthy(tenant_bid)
               /\ 20 * Abs(tenant_bid - competitor_bid) < Max2(tenant_bid, competitor_bid)
               /\ ~state.all_final_bids_submitted
            THEN <<Action("request_best_final", None, None, (asking_price * 2) \div 100)>>
            ELSE <<>>
        counter ==
            IF highest_bid < asking_price /\ 10 * highest_bid > 9 * asking_price
            THEN <<Action("counter_offer", None, asking_price, None)>>
            ELSE <<>>
        reject ==
            IF ~RatioGe(highest_bid, asking_price, landlord.rejection_threshold)
            THEN <<Action("reject_all", None, None, None)>>
            ELSE <<>>
    IN  IF tenant_bid = None THEN <<>>
        ELSE filter_landlord_actions(accept \o best_final \o counter \o reject, landlord)

----------------------------------------------------------------------------
(* Python's sorted(items, key=..., reverse=...): stable in both directions *)

RECURSIVE InsertByKey(_, _, _)
InsertByKey(sorted, item, reverse) ==
    IF sorted = <<>> THEN <<item>>
    ELSE IF (reverse /\ Head(sorted).key >= item.key)
            \/ (~reverse /\ Head(sorted).key <= item.key)
    THEN <<Head(sorted)>> \o InsertByKey(Tail(sorted), item, reverse)
    ELSE <<item>> \o sorted

RECURSIVE SortKeyed(_, _, _)
SortKeyed(items, sorted, reverse) ==
    IF items = <<>> THEN sorted
    ELSE SortKeyed(Tail(items), InsertByKey(sorted, Head(items), reverse), reverse)

\* sorted(values, key=lambda v: keys[v's index], reverse=reverse)
Sorted(values, keys, reverse) ==
    LET items  == [i \in 1..Len(values) |-> [key |-> keys[i], val |-> values[i]]]
        result == SortKeyed(items, <<>>, reverse)
    IN  [i \in 1..Len(values) |-> result[i].val]

----------------------------------------------------------------------------
(* Candidate bids and move ordering (algorithm/expectiminimax_landlord.py) *)

\* num of np.linspace in get_possible_bids: round 1, and request_best_final
NUM_BIDS == 15
NUM_FINAL_BIDS == 10

\* flexible_budget = max_budget * (1 + BUDGET_FLEXIBILITY), in thousandths of a dollar
FlexibleBudget(state) == (state.max_budget * (ONE + BUDGET_FLEXIBILITY)) \div 10

\* risk_levels, keyed by risk level in tenths: center_offset and range in thousandths
RiskLevels(market_condition) ==
    IF market_condition \in {"cooling", "very_cool"}
    THEN << [level |-> 10, center_offset |-> 0 - 80, range |-> 100],
            [level |-> 15, center_offset |-> 0 - 60, range |-> 120],
            [level |-> 20, center_offset |-> 0 - 40, range |-> 140],
            [level |-> 30, center_offset |-> 0 - 20, range |-> 160],
            [level |-> 40, center_offset |-> 0,      range |-> 180],
            [level |-> 45, center_offset |-> 20,     range |-> 200],
            [level |-> 50, center_offset |-> 40,     range |-> 220] >>
    ELSE << [level |-> 10, center_offset |-> 0 - 40, range |-> 100],
            [level |-> 15, center_offset |-> 0 - 20, range |-> 120],
            [level |-> 20, center_offset |-> 0,      range |-> 140],
            [level |-> 30, center_offset |-> 20,     range |-> 160],
            [level |-> 40, center_offset |-> 40,     range |-> 180],
            [level |-> 45, center_offset |-> 60,     range |-> 200],
            [level |-> 50, center_offset |-> 80,     range |-> 220] >>

\* min(available_levels, key=lambda x: abs(x - risk_level)): the first closest
RECURSIVE ClosestLevel(_, _, _)
ClosestLevel(levels, risk_level, best) ==
    IF levels = <<>> THEN best
    ELSE ClosestLevel(Tail(levels), risk_level,
                      IF Abs(Head(levels).level - risk_level) < Abs(best.level - risk_level)
                      THEN Head(levels) ELSE best)

\* the request_best_final branch with a window that is not repaired when its
\* lower end is above the flexible budget
FinalBidsWithoutRepair(state) ==
    LET reference   == IF Truthy(state.previous_bid) THEN state.previous_bid
                       ELSE state.user_bid
        current_bid == IF reference = None THEN 980 * state.listing_price
                       ELSE 1000 * reference
    IN  Linspace((current_bid * 102) \div 100,
                 Min2((current_bid * 110) \div 100, FlexibleBudget(state)),
                 NUM_FINAL_BIDS, 1000)

\* the request_best_final branch of get_possible_bids
FinalBids(state) ==
    LET reference   == IF Truthy(state.previous_bid) THEN state.previous_bid
                       ELSE state.user_bid
        \* current_bid, min_bid and max_bid in thousandths of a dollar
        current_bid == IF reference = None THEN 980 * state.listing_price
                       ELSE 1000 * reference
        min_bid     == (current_bid * 102) \div 100
        max_bid0    == Min2((current_bid * 110) \div 100, FlexibleBudget(state))
        max_bid     == IF min_bid > max_bid0 THEN (min_bid * 105) \div 100 ELSE max_bid0
    IN  Linspace(min_bid, max_bid, NUM_FINAL_BIDS, 1000)

\* the round-1 branch of get_possible_bids
InitialBids(state) ==
    LET listing_price == state.listing_price
        market_median_ratio == MarketParameters[state.market_params].median
        levels      == RiskLevels(classify_market_conditions(state.market_params))
        risk_params == ClosestLevel(Tail(levels), state.risk_tolerance, Head(levels))
        center_ratio == market_median_ratio + risk_params.center_offset
        min_ratio   == center_ratio - risk_params.range \div 2
        max_ratio   == center_ratio + risk_params.range \div 2
        min_bid0    == Max2(min_ratio * listing_price, 850 * listing_price)
        max_bid0    == Min2(max_ratio * listing_price, FlexibleBudget(state))
        max_bid     == IF min_bid0 >= max_bid0
                       THEN Min2(FlexibleBudget(state), 1050 * listing_price)
                       ELSE max_bid0
        min_bid     == IF min_bid0 >= max_bid0 THEN (max_bid * 95) \div 100 ELSE min_bid0
    IN  IF min_bid < max_bid
        THEN Linspace(min_bid, max_bid, NUM_BIDS, 1000)
        ELSE << (min_bid + 500) \div 1000 >>

\* get_possible_bids with the counter-offer branch of lines 212-214 not taken: the
\* counter-offer state falls through to the round-1 candidates
get_possible_bids_without_counter(state) ==
    IF state.round = 3 /\ state.landlord_feedback = "request_best_final"
    THEN FinalBids(state)
    ELSE InitialBids(state)

get_possible_bids(state) ==
    IF state.round = 3 /\ state.landlord_feedback = "counter_offer"
    THEN <<state.counter_price, state.user_bid>>
    ELSE IF state.round = 3 /\ state.landlord_feedback = "request_best_final"
    THEN FinalBids(state)
    ELSE InitialBids(state)

\* bid > node.max_budget * (1 + BUDGET_FLEXIBILITY)
OverBudget(bid, node) == 1000 * bid > FlexibleBudget(node)

bid_heuristic_value(bid, state) ==
    LET competitor_dist == get_competitor_bid_distribution(state)
        win_prob == ProbBelow(competitor_dist, bid, TRUE)
        landlord_profile == ProfileOf(state)
        \* accept_prob in tenths
        accept_prob ==
            IF RatioGe(bid, state.listing_price, landlord_profile.acceptance_threshold)
            THEN 9
            ELSE IF RatioGe(bid, state.listing_price,
                            landlord_profile.acceptance_threshold - (5 * TEN7) \div 100)
            THEN 6
            ELSE 3
        overpayment_penalty ==
            Max2(0, ((100 * bid - FairValueOf(state)) * ONE) \div (100 * state.listing_price))
    IN  (win_prob * accept_prob) \div 10 - overpayment_penalty \div 2

\* estimate_tenant_surplus, in cents
estimate_tenant_surplus(landlord_action, state) ==
    CASE landlord_action.type = "accept_tenant" ->
            IF state.user_bid # None THEN FairValueOf(state) - 100 * state.user_bid ELSE 0
      [] landlord_action.type = "accept_competitor" -> 0 - 50 * state.property_value
      [] landlord_action.type = "reject_all" -> 0 - 20
      [] landlord_action.type = "request_best_final" -> 0 - 3 * state.listing_price
      [] landlord_action.type = "counter_offer" ->
            IF state.user_bid # None
            THEN 100 * (state.listing_price - state.user_bid)
            ELSE 5 * state.listing_price

\* possible_bids sorted descending by bid_heuristic_value
SortedBids(node) ==
    LET bids == get_possible_bids(node)
    IN  Sorted(bids, [i \in 1..Len(bids) |-> bid_heuristic_value(bids[i], node)], TRUE)

\* bid_distribution sorted descending by probability
SortedDistribution(node) ==
    LET dist == get_competitor_bid_distribution(node)
    IN  Sorted(dist, [i \in 1..Len(dist) |-> dist[i].prob], TRUE)

\* landlord_actions sorted ascending by estimate_tenant_surplus
SortedLandlordActions(node) ==
    LET actions == get_landlord_actions(node)
    IN  Sorted(actions, [i \in 1..Len(actions) |-> estimate_tenant_surplus(actions[i], node)],
               FALSE)

----------------------------------------------------------------------------
(* State transformers of the search (algorithm/expectiminimax_landlord.py) *)

is_terminal(node) == node.landlord_final_decision # "None"

\* node.copy() and the assignment to the copy
make_tenant_bid(node, bid) == [node EXCEPT !.user_bid = bid]

apply_competitor_bid(state, competitor_bid) ==
    [state EXCEPT !.highest_competitor_bid = competitor_bid]

\* apply_landlord_decision without the reject_all branch
apply_landlord_decision_without_reject(state, action) ==
    CASE action.type = "accept_tenant" ->
            [state EXCEPT !.landlord_final_decision = "accept_tenant",
                          !.won_property = TRUE]
      [] action.type = "accept_competitor" ->
            [state EXCEPT !.landlord_final_decision = "accept_competitor",
                          !.won_property = FALSE]
      [] action.type = "reject_all" -> state
      [] action.type = "counter_offer" ->
            [state EXCEPT !.counter_price = action.counter_price]
      [] action.type = "request_best_final" ->
            [state EXCEPT !.min_increase = action.min_increase]

apply_landlord_decision(state, action) ==
    CASE action.type = "accept_tenant" ->
            [state EXCEPT !.landlord_final_decision = "accept_tenant",
                          !.won_property = TRUE]
      [] action.type = "accept_competitor" ->
            [state EXCEPT !.landlord_final_decision = "accept_competitor",
                          !.won_property = FALSE]
      [] action.type = "reject_all" ->
            [state EXCEPT !.landlord_final_decision = "reject_all",
                          !.won_property = FALSE]
      [] action.type = "counter_offer" ->
            [state EXCEPT !.counter_price = action.counter_price]
      [] action.type = "request_best_final" ->
            [state EXCEPT !.min_increase = action.min_increase]

\* the child a tenant_max node recurses into, and the player that moves there
TenantChild(node, bid) ==
    IF node.round = 1 THEN make_tenant_bid(node, bid)
    ELSE [make_tenant_bid(node, bid) EXCEPT !.all_final_bids_submitted = TRUE]

\* the competitors bid after every tenant bid
TenantNextPlayerAlwaysChance(node) == "competitor_chance"

TenantNextPlayer(node) ==
    IF node.round = 1 THEN "competitor_chance" ELSE "landlord_min"

\* the child a landlord_min node recurses into after request_best_final or
\* counter_offer
LandlordChild(node, action) ==
    [apply_landlord_decision(node, action) EXCEPT !.round = 3,
                                                  !.landlord_feedback = action.type]

----------------------------------------------------------------------------
(* The program state *)

VARIABLES
    base_state,      \* the GameState generate_three_strategies is called with
    pc,              \* position in generate_three_strategies
    strategy_states, \* conservative_state, balanced_state, aggressive_state
    k,               \* index of the strategy the loop is at
    stack,           \* call stack of expectiminimax_with_landlord, root first
    result,          \* (value, bid) the root call returned
    strategies,      \* the strategies dict, in insertion order
    raw,             \* per recorded strategy: the search's bid and the bid before the nudge
    calls,           \* completed calls of generate_three_strategies
    first,           \* the mapping the first call returned
    probe,           \* input of a directly applied function
    probe_out        \* its result

vars == <<base_state, pc, strategy_states, k, stack, result, strategies, raw,
          calls, first, probe, probe_out>>

StrategyNames == <<"conservative", "balanced", "aggressive">>

\* an activation that is handed the depth of the call above it, one more than
\* the depth the call is made with
FrameUndecremented(node, depth, alpha, beta, player_type) ==
    [ node |-> node, depth |-> depth + 1, alpha |-> alpha, beta |-> beta,
      player_type |-> player_type, at |-> "enter", items |-> <<>>, i |-> 1,
      value |-> 0, best_action |-> None, cumulative_prob |-> 0 ]

\* an activation of expectiminimax_with_landlord(node, depth, alpha, beta, player_type)
Frame(node, depth, alpha, beta, player_type) ==
    [ node |-> node, depth |-> depth, alpha |-> alpha, beta |-> beta,
      player_type |-> player_type,
      at |-> "enter",          \* "enter": before line 27; "loop": in the for loop
      items |-> <<>>,          \* the sorted candidates of the loop
      i |-> 1,                 \* index of the next candidate
      value |-> 0,             \* max_eval, expected_value or min_eval
      best_action |-> None,    \* the best bid (tenant_max)
      cumulative_prob |-> 0 ]

Top == stack[Len(stack)]

\* the loop of a frame is over: exhausted, or left by break
Finished(f) == f.at = "loop" /\ f.i > Len(f.items)

Searching == pc = "search" /\ stack # <<>>

----------------------------------------------------------------------------
(* expectiminimax_with_landlord, one loop iteration or one return per step *)

\* lines 61-67: a tenant_max frame takes the value of the child for items[i]
TenantFold(f, eval_score) ==
    LET better == FLt(f.value, eval_score)
        alpha  == FMax(f.alpha, eval_score)
    IN  [f EXCEPT !.value = IF better THEN eval_score ELSE f.value,
                  !.best_action = IF better THEN f.items[f.i] ELSE f.best_action,
                  !.alpha = alpha,
                  !.i = IF FLe(f.beta, alpha) THEN Len(f.items) + 1 ELSE f.i + 1]

\* lines 94-110: a competitor_chance frame takes the value of the child for items[i]
ChanceFold(f, eval_score) ==
    LET probability      == f.items[f.i].prob
        expected_value   == FAdd(f.value, FMulProb(probability, eval_score))
        cumulative_prob  == f.cumulative_prob + probability
        remaining_prob   == ONE - cumulative_prob
        optimistic_bound == FAdd(expected_value, remaining_prob)
        pessimistic_bound == FAdd(expected_value, 0 - remaining_prob)
    IN  [f EXCEPT !.value = expected_value,
                  !.cumulative_prob = cumulative_prob,
                  !.i = IF FLt(optimistic_bound, f.alpha) \/ FLt(f.beta, pessimistic_bound)
                        THEN Len(f.items) + 1 ELSE f.i + 1]

\* lines 146-152: a landlord_min frame takes the value of action items[i]
LandlordFold(f, eval_score) ==
    LET better == FLt(eval_score, f.value)
        beta   == FMin(f.beta, eval_score)
    IN  [f EXCEPT !.value = IF better THEN eval_score ELSE f.value,
                  !.best_action = IF better THEN f.i ELSE f.best_action,
                  !.beta = beta,
                  !.i = IF FLe(beta, f.alpha) THEN Len(f.items) + 1 ELSE f.i + 1]

Fold(f, eval_score) ==
    CASE f.player_type = "tenant_max" -> TenantFold(f, eval_score)
      [] f.player_type = "competitor_chance" -> ChanceFold(f, eval_score)
      [] f.player_type = "landlord_min" -> LandlordFold(f, eval_score)

\* the top activation returns (value, action): to its caller's loop, or, from the
\* root, to generate_three_strategies
Deliver(value, action) ==
    IF Len(stack) = 1
    THEN /\ stack' = <<>>
         /\ result' = [value |-> value, bid |-> action]
         /\ pc' = "record"
    ELSE /\ stack' = SubSeq(stack, 1, Len(stack) - 2) \o
                      <<Fold(stack[Len(stack) - 1], value)>>
         /\ UNCHANGED <<result, pc>>

ReplaceTop(f) == stack' = [stack EXCEPT ![Len(stack)] = f]

\* a call whose child state is the caller's node itself, written in place
\* (no node.copy())
PushAliased(f) == stack' = Append([stack EXCEPT ![Len(stack)].node = f.node], f)

Push(f) == stack' = Append(stack, f)

SearchFrame == UNCHANGED <<base_state, strategy_states, k, strategies, raw, calls,
                           first, probe, probe_out>>

\* lines 27-28
Leaf ==
    /\ Searching /\ Top.at = "enter"
    /\ Top.depth = 0 \/ is_terminal(Top.node)
    /\ Deliver(evaluate(Top.node), None)
    /\ SearchFrame

\* the activation raises before its loop: the sort key of line 39 calls
\* get_competitor_bid_distribution for the first candidate bid, and line 76
\* calls it for the chance node
Raises(f) ==
    \/ f.player_type = "tenant_max" /\ get_possible_bids(f.node) # <<>>
                                     /\ DistributionRaises(f.node)
    \/ f.player_type = "competitor_chance" /\ DistributionRaises(f.node)

\* lines 30-40
EnterTenant ==
    /\ Searching /\ Top.at = "enter" /\ Top.player_type = "tenant_max"
    /\ ~(Top.depth = 0 \/ is_terminal(Top.node))
    /\ ~Raises(Top)
    /\ ReplaceTop([Top EXCEPT !.at = "loop", !.value = NegInf,
                              !.items = SortedBids(Top.node)])
    /\ UNCHANGED <<result, pc>> /\ SearchFrame

\* lines 71-81
EnterChance ==
    /\ Searching /\ Top.at = "enter" /\ Top.player_type = "competitor_chance"
    /\ ~(Top.depth = 0 \/ is_terminal(Top.node))
    /\ ~Raises(Top)
    /\ ReplaceTop([Top EXCEPT !.at = "loop", !.value = 0,
                              !.items = SortedDistribution(Top.node)])
    /\ UNCHANGED <<result, pc>> /\ SearchFrame

\* lines 114-123
EnterLandlord ==
    /\ Searching /\ Top.at = "enter" /\ Top.player_type = "landlord_min"
    /\ ~(Top.depth = 0 \/ is_terminal(Top.node))
    /\ ReplaceTop([Top EXCEPT !.at = "loop", !.value = PosInf,
                              !.items = SortedLandlordActions(Top.node)])
    /\ UNCHANGED <<result, pc>> /\ SearchFrame

\* lines 42-59: skip a bid over the flexible budget, or recurse into the child
TenantStep ==
    /\ Searching /\ Top.at = "loop" /\ Top.player_type = "tenant_max"
    /\ ~Finished(Top)
    /\ LET bid == Top.items[Top.i]
       IN  IF OverBudget(bid, Top.node)
           THEN ReplaceTop([Top EXCEPT !.i = Top.i + 1])
           ELSE Push(Frame(TenantChild(Top.node, bid), Top.depth - 1, Top.alpha,
                           Top.beta, TenantNextPlayer(Top.node)))
    /\ UNCHANGED <<result, pc>> /\ SearchFrame

\* lines 83-92: skip a low-probability bid, or recurse into the child
ChanceStep ==
    /\ Searching /\ Top.at = "loop" /\ Top.player_type = "competitor_chance"
    /\ ~Finished(Top)
    /\ LET item == Top.items[Top.i]
       IN  IF item.prob < PROBABILITY_THRESHOLD
           THEN ReplaceTop([Top EXCEPT !.i = Top.i + 1])
           ELSE Push(Frame(apply_competitor_bid(Top.node, item.bid), Top.depth - 1,
                           Top.alpha, Top.beta, "landlord_min"))
    /\ UNCHANGED <<result, pc>> /\ SearchFrame

\* lines 125-152: a final decision is evaluated in place; request_best_final and
\* counter_offer recurse into the tenant's round 3
LandlordStep ==
    /\ Searching /\ Top.at = "loop" /\ Top.player_type = "landlord_min"
    /\ ~Finished(Top)
    /\ LET action == Top.items[Top.i]
       IN  IF action.type \in {"accept_tenant", "accept_competitor", "reject_all"}
           THEN ReplaceTop(LandlordFold(Top,
                               evaluate(apply_landlord_decision(Top.node, action))))
           ELSE Push(Frame(LandlordChild(Top.node, action), Top.depth - 1, Top.alpha,
                           Top.beta, "tenant_max"))
    /\ UNCHANGED <<result, pc>> /\ SearchFrame

\* lines 69, 112, 154
Return ==
    /\ Searching /\ Finished(Top)
    /\ Deliver(Top.value,
               IF Top.player_type = "competitor_chance" THEN None ELSE Top.best_action)
    /\ SearchFrame

\* an AssertionError or KeyError leaves every activation and
\* generate_three_strategies, which has no handler
Raise ==
    /\ Searching /\ Top.at = "enter"
    /\ ~(Top.depth = 0 \/ is_terminal(Top.node))
    /\ Raises(Top)
    /\ stack' = <<>>
    /\ pc' = "raised"
    /\ UNCHANGED result /\ SearchFrame

Search ==
    \/ Leaf \/ EnterTenant \/ EnterChance \/ EnterLandlord
    \/ TenantStep \/ ChanceStep \/ LandlordStep \/ Return

----------------------------------------------------------------------------
(* The same search with every cutoff disabled: the loops of lines 42-67,   *)
(* 83-110 and 125-152 without the break statements of lines 67, 104, 110   *)
(* and 152.  The candidates, their order and the folds are unchanged.      *)

\* max_eval after the loop of lines 42-67 over child values vals[i], i in kept:
\* it starts at -inf and takes every eval_score > max_eval (never a nan)
MaxEval(vals, kept) ==
    LET scores == {vals[i] : i \in kept} \ {NaN}
    IN  IF scores = {} THEN NegInf
        ELSE CHOOSE m \in scores : \A v \in scores : v <= m

\* min_eval after the loop of lines 125-152: it starts at +inf and takes every
\* eval_score < min_eval
MinEval(vals, kept) ==
    LET scores == {vals[i] : i \in kept} \ {NaN}
    IN  IF scores = {} THEN PosInf
        ELSE CHOOSE m \in scores : \A v \in scores : m <= v

\* expected_value after the loop of lines 83-110: the float sum of
\* probability * eval_score over the children (nan if a term is nan or if
\* +inf and -inf both occur, else an infinite term, else the finite sum)
ExpectedValue(items, vals, kept) ==
    LET terms == [i \in 1..Len(items) |->
                     IF i \in kept THEN FMulProb(items[i].prob, vals[i]) ELSE 0]
        range == {terms[i] : i \in 1..Len(items)}
    IN  IF NaN \in range \/ (PosInf \in range /\ NegInf \in range) THEN NaN
        ELSE IF PosInf \in range THEN PosInf
        ELSE IF NegInf \in range THEN NegInf
        ELSE SumSeq(terms)

RECURSIVE FullValue(_, _, _)

\* the value of expectiminimax_with_landlord(node, depth, ., ., player_type)
\* without cutoffs (alpha and beta no longer matter)
FullValue(node, depth, player_type) ==
    IF depth = 0 \/ is_terminal(node) THEN evaluate(node)
    ELSE CASE player_type = "tenant_max" ->
                LET items == SortedBids(node)
                    kept  == {i \in 1..Len(items) : ~OverBudget(items[i], node)}
                    vals  == [i \in kept |->
                                 FullValue(TenantChild(node, items[i]), depth - 1,
                                           TenantNextPlayer(node))]
                IN  MaxEval(vals, kept)
           [] player_type = "competitor_chance" ->
                LET items == SortedDistribution(node)
                    kept  == {i \in 1..Len(items) :
                                 items[i].prob >= PROBABILITY_THRESHOLD}
                    vals  == [i \in kept |->
                                 FullValue(apply_competitor_bid(node, items[i].bid),
                                           depth - 1, "landlord_min")]
                IN  ExpectedValue(items, vals, kept)
           [] player_type = "landlord_min" ->
                LET items == SortedLandlordActions(node)
                    kept  == 1..Len(items)
                    vals  == [i \in kept |->
                                 IF items[i].type \in {"accept_tenant",
                                                       "accept_competitor", "reject_all"}
                                 THEN evaluate(apply_landlord_decision(node, items[i]))
                                 ELSE FullValue(LandlordChild(node, items[i]),
                                                depth - 1, "tenant_max")]
                IN  MinEval(vals, kept)

----------------------------------------------------------------------------
(* generate_three_strategies (analysis/strategy.py) *)

\* lines 20-44: the three deep copies of base_state and their modifiers
ConservativeState(base) ==
    [base EXCEPT !.risk_tolerance = IF base.round = 3 THEN 10 ELSE 15,
                 !.negotiation_cost = 1500,
                 !.overpayment_weight = (OVERPAYMENT_WEIGHT * 15) \div 10,
                 !.property_value_weight = (PROPERTY_VALUE_WEIGHT * 7) \div 10]

BalancedState(base) ==
    [base EXCEPT !.risk_tolerance = base.risk_tolerance,
                 !.negotiation_cost = 500,
                 !.overpayment_weight = OVERPAYMENT_WEIGHT,
                 !.property_value_weight = PROPERTY_VALUE_WEIGHT]

AggressiveState(base) ==
    [base EXCEPT !.risk_tolerance = IF base.round = 3 THEN 50 ELSE 45,
                 !.negotiation_cost = 100,
                 !.overpayment_weight = (OVERPAYMENT_WEIGHT * 5) \div 10,
                 !.property_value_weight = (PROPERTY_VALUE_WEIGHT * 13) \div 10]

\* lines 57-63: the bid substituted when the search returns None
FallbackBid(strategy_name, state) ==
    LET percent == CASE strategy_name = "conservative" -> 90
                     [] strategy_name = "balanced" -> 98
                     [] strategy_name = "aggressive" -> 105
    IN  Min2((percent * state.listing_price + 50) \div 100, state.max_budget)

\* the nudge of lines 68-73 without its cap at the flexible budget
NudgedUncapped(bid, increment, state) == bid + increment

\* min(bid + increment, max_budget * (1 + BUDGET_FLEXIBILITY)), in dollars
Nudged(bid, increment, state) ==
    (Min2(1000 * (bid + increment), FlexibleBudget(state)) + 500) \div 1000

\* lines 65-73: the differentiation of a bid from the bids already recorded
Differentiate(strategy_name, bid, state, recorded) ==
    IF Len(recorded) >= 1 /\ Abs(bid - recorded[1].bid) < 20
    THEN (IF strategy_name = "balanced" THEN Nudged(bid, 30, state)
          ELSE IF strategy_name = "aggressive" THEN Nudged(bid, 60, state)
          ELSE bid)
    ELSE IF Len(recorded) >= 2 /\ strategy_name = "aggressive"
            /\ Abs(bid - recorded[2].bid) < 20
    THEN Nudged(bid, 40, state)
    ELSE bid

\* calculate_win_probability_with_landlord with the comparison of line 111
\* reversed: sum(prob for comp_bid, prob in competitor_dist if bid <= comp_bid)
calculate_win_probability_reversed(bid, state) ==
    LET competitor_dist == get_competitor_bid_distribution(state)
        prob_highest ==
            SumSeq([i \in 1..Len(competitor_dist) |->
                       IF bid <= competitor_dist[i].bid THEN competitor_dist[i].prob
                       ELSE 0])
        landlord_profile == ProfileOf(state)
        prob_accept ==
            IF RatioGe(bid, state.listing_price, landlord_profile.acceptance_threshold)
            THEN 95
            ELSE IF RatioGe(bid, state.listing_price,
                            landlord_profile.acceptance_threshold - (5 * TEN7) \div 100)
            THEN 70
            ELSE IF RatioGe(bid, state.listing_price,
                            landlord_profile.rejection_threshold)
            THEN 40
            ELSE 10
    IN  (prob_highest * prob_accept) \div 100

\* in units of 1/ONE
calculate_win_probability_with_landlord(bid, state) ==
    LET competitor_dist == get_competitor_bid_distribution(state)
        prob_highest == ProbBelow(competitor_dist, bid, FALSE)
        landlord_profile == ProfileOf(state)
        \* prob_accept in hundredths
        prob_accept ==
            IF RatioGe(bid, state.listing_price, landlord_profile.acceptance_threshold)
            THEN 95
            ELSE IF RatioGe(bid, state.listing_price,
                            landlord_profile.acceptance_threshold - (5 * TEN7) \div 100)
            THEN 70
            ELSE IF RatioGe(bid, state.listing_price,
                            landlord_profile.rejection_threshold)
            THEN 40
            ELSE 10
    IN  (prob_highest * prob_accept) \div 100

\* the 'type' of the predicted response
predict_landlord_response(bid, state) ==
    LET landlord_profile == ProfileOf(state)
    IN  IF RatioGe(bid, state.listing_price, landlord_profile.acceptance_threshold)
        THEN "accept"
        ELSE IF bid >= state.listing_price THEN "request_best_final"
        ELSE IF RatioGe(bid, state.listing_price, landlord_profile.rejection_threshold)
        THEN "counter_offer"
        ELSE "reject"

\* bid - fair_value, in cents
calculate_expected_overpayment(bid, state) == 100 * bid - FairValueOf(state)

\* lines 75-90: the record of one strategy
StrategyRecord(strategy_name, bid, value, state) ==
    LET landlord_response == predict_landlord_response(bid, state)
    IN  [ name |-> strategy_name,
          bid |-> bid,
          win_probability |-> calculate_win_probability_with_landlord(bid, state),
          expected_overpayment |-> calculate_expected_overpayment(bid, state),
          likely_landlord_response |-> landlord_response,
          requires_negotiation |-> landlord_response # "accept",
          description_suffix |-> "",
          payoff_value |-> value ]

\* lines 92-100: the suffix appended to one strategy_description
FinalCheck(recorded) ==
    IF FLt(recorded[2].payoff_value, recorded[1].payoff_value)
    THEN [recorded EXCEPT ![1].description_suffix = " (Best value in this market)"]
    ELSE IF FLt(recorded[2].payoff_value, recorded[3].payoff_value)
    THEN [recorded EXCEPT ![3].description_suffix =
                              " (Best choice in competitive market)"]
    ELSE recorded

NoProbe == UNCHANGED <<probe, probe_out>>

\* Prepare with aggressive_state bound to base_state itself instead of a deep copy
\* of it: the aggressive modifiers are written into the caller's state
PrepareAliased ==
    /\ pc = "start"
    /\ strategy_states' = << ConservativeState(base_state), BalancedState(base_state),
                             AggressiveState(base_state) >>
    /\ base_state' = AggressiveState(base_state)
    /\ strategies' = <<>>
    /\ raw' = <<>>
    /\ k' = 1
    /\ pc' = "call"
    /\ UNCHANGED <<stack, result, calls, first>> /\ NoProbe

\* lines 16-44
Prepare ==
    /\ pc = "start"
    /\ strategy_states' = << ConservativeState(base_state), BalancedState(base_state),
                             AggressiveState(base_state) >>
    /\ strategies' = <<>>
    /\ raw' = <<>>
    /\ k' = 1
    /\ pc' = "call"
    /\ UNCHANGED <<base_state, stack, result, calls, first>> /\ NoProbe

\* lines 46-54: the call of the search for the strategy at hand
CallSearch ==
    /\ pc = "call"
    /\ stack' = <<Frame(strategy_states[k], TREE_DEPTH, NegInf, PosInf, "tenant_max")>>
    /\ pc' = "search"
    /\ UNCHANGED <<base_state, strategy_states, k, result, strategies, raw, calls, first>>
    /\ NoProbe

\* lines 56-90
Record ==
    /\ pc = "record"
    /\ LET state == strategy_states[k]
           name  == StrategyNames[k]
           bid0  == IF result.bid = None THEN FallbackBid(name, state) ELSE result.bid
           bid   == Differentiate(name, bid0, state, strategies)
       IN  /\ strategies' = Append(strategies,
                                   StrategyRecord(name, bid, result.value, state))
           /\ raw' = Append(raw, [search_bid |-> result.bid, bid |-> bid0])
    /\ pc' = IF k = 3 THEN "check" ELSE "call"
    /\ k' = IF k = 3 THEN k ELSE k + 1
    /\ UNCHANGED <<base_state, strategy_states, stack, result, calls, first>> /\ NoProbe

\* lines 92-102
Finish ==
    /\ pc = "check"
    /\ strategies' = FinalCheck(strategies)
    /\ pc' = "returned"
    /\ calls' = calls + 1
    /\ UNCHANGED <<base_state, strategy_states, k, stack, result, raw, first>> /\ NoProbe

----------------------------------------------------------------------------
(* Configurations and specifications *)

\* ui/terminal_ui.py handle_round_3: the landlord's feedback and the tenant's
\* round-1 bid are written into the game state, which moves to round 3
handle_round_3(game_state, feedback, counter, round1_bid) ==
    [game_state EXCEPT !.landlord_feedback = feedback,
                       !.counter_price = IF feedback = "counter_offer" THEN counter
                                         ELSE game_state.counter_price,
                       !.previous_bid = round1_bid,
                       !.user_bid = round1_bid,
                       !.round = 3]

\* round-1 configurations: the two preset markets; a budget at, below and above
\* the listing price (the second is the scenario of test_fix.py); a fresh and a
\* week-old listing; a firm and a moderate landlord; the lowest, the middle and
\* the highest risk tolerance
InitialConfigurations ==
    { GameState(m, 2000, 2000, 2000, 0, s, 2, 3, r, 1) :
        m \in {"downtown", "burnaby"}, s \in {1, 2}, r \in {10, 30, 50} }
    \cup
    { GameState("burnaby", 2600, 2500, 2550, 7, 2, 2, 3, 30, 1),
      GameState("downtown", 2200, 2500, 2156, 7, 2, 2, 4, 30, 1) }

\* round-3 configurations: a round-1 configuration after handle_round_3, with a
\* counter-offer at the asking price or a request for best and final offers
FinalConfigurations ==
    { handle_round_3(GameState(m, 2000, b, 2000, 0, 2, 2, 3, 30, 1), f, 2000, u) :
        m \in {"downtown", "burnaby"}, b \in {1800, 2000},
        f \in {"counter_offer", "request_best_final"}, u \in {1780, 1900, 1990} }

Configurations == InitialConfigurations \cup FinalConfigurations

Idle ==
    /\ pc = "start" /\ strategy_states = <<>> /\ k = 1 /\ stack = <<>>
    /\ result = [value |-> 0, bid |-> None]
    /\ strategies = <<>> /\ raw = <<>> /\ calls = 0 /\ first = <<>>

Init ==
    /\ base_state \in Configurations
    /\ Idle
    /\ probe = <<>> /\ probe_out = <<>>

Next == Prepare \/ CallSearch \/ Search \/ Record \/ Finish

Spec == Init /\ [][Next]_vars

----------------------------------------------------------------------------
(* Direct calls: generate_three_strategies is a public function, and the   *)
(* tests build a GameState by hand and call it without ui/input_validator  *)

\* what InputValidator.validate_rental_situation and validate_user_preferences
\* accept, with the ranges validate_market_parameters asserts
ValidConfiguration(state) ==
    /\ state.market_params \in MarketNames
    /\ state.listing_price > 0 /\ state.neighborhood_avg > 0
    /\ state.base_days \in 0..365
    /\ state.price_sens_landlord \in 1..3
    /\ state.competitive_level \in 1..3
    /\ state.max_budget > 0
    /\ state.property_value \in 1..5
    /\ state.risk_tolerance \in {10, 20, 30, 40, 50}

\* configurations the validator would refuse: market parameters out of range,
\* a competitive_level of 4, a landlord price sensitivity of 5
UncheckedConfigurations ==
    { GameState("out_of_range", 2000, 2000, 2000, 0, 2, 2, 3, 30, 1),
      GameState("downtown", 2000, 2000, 2000, 0, 2, 4, 3, 30, 1),
      GameState("downtown", 2000, 2000, 2000, 0, 5, 2, 3, 30, 1) }

InitUnchecked ==
    /\ base_state \in UncheckedConfigurations
    /\ Idle
    /\ probe = <<>> /\ probe_out = <<>>

NextUnchecked == Next \/ Raise

SpecUnchecked == InitUnchecked /\ [][NextUnchecked]_vars

----------------------------------------------------------------------------
(* Repeated calls: the caller calls generate_three_strategies again on the *)
(* configuration it holds (main.py keeps one game_state for the session)   *)

\* calls of generate_three_strategies on one configuration
MaxCalls == 2

\* the configurations called repeatedly: every round-3 configuration and two
\* round-1 configurations
RepeatConfigurations ==
    FinalConfigurations
    \cup { GameState(m, 2000, 2000, 2000, 0, 2, 2, 3, 30, 1) : m \in {"downtown", "burnaby"} }

\* the caller keeps the mapping of the first call and calls again
CallAgain ==
    /\ pc = "returned" /\ calls < MaxCalls
    /\ first' = IF calls = 1 THEN strategies ELSE first
    /\ pc' = "start"
    /\ UNCHANGED <<base_state, strategy_states, k, stack, result, strategies, raw, calls>>
    /\ NoProbe

InitRepeat ==
    /\ base_state \in RepeatConfigurations
    /\ Idle
    /\ probe = <<>> /\ probe_out = <<>>

NextRepeat == Prepare \/ CallSearch \/ Search \/ Record \/ Finish \/ CallAgain

SpecRepeat == InitRepeat /\ [][NextRepeat]_vars

----------------------------------------------------------------------------
(* The three searches repeated on states that differ from the strategy      *)
(* states in property_value_weight only                                     *)

WeightConfigurations ==
    { GameState("downtown", 2000, 2000, 2000, 0, 2, 2, 3, 30, 1),
      GameState("burnaby", 2600, 2500, 2550, 7, 2, 2, 3, 30, 1) }
    \cup { handle_round_3(GameState(m, 2000, 2000, 2000, 0, 2, 2, 3, 30, 1), f, 2000, 1900) :
             m \in {"downtown", "burnaby"},
             f \in {"counter_offer", "request_best_final"} }

\* the caller keeps the recommendations and the search results of the call, and
\* the loop of lines 46-90 runs again on the three strategy states with the
\* assignments of lines 24, 31 and 38 undone: property_value_weight is the one
\* of base_state in all three
CallUnscaled ==
    /\ pc = "returned" /\ calls = 1
    /\ first' = <<strategies, raw>>
    /\ strategy_states' =
           [j \in 1..3 |-> [strategy_states[j] EXCEPT
                               !.property_value_weight = base_state.property_value_weight]]
    /\ strategies' = <<>>
    /\ raw' = <<>>
    /\ k' = 1
    /\ pc' = "call"
    /\ UNCHANGED <<base_state, stack, result, calls>> /\ NoProbe

InitWeights ==
    /\ base_state \in WeightConfigurations
    /\ Idle
    /\ probe = <<>> /\ probe_out = <<>>

NextWeights ==
    \/ calls = 0 /\ Prepare
    \/ CallSearch \/ Search \/ Record \/ Finish \/ CallUnscaled

SpecWeights == InitWeights /\ [][NextWeights]_vars

----------------------------------------------------------------------------
(* Direct applications of evaluate and calculate_win_probability_with_landlord *)

\* the three strategy states of a base state
StrategyStatesOf(base) ==
    {ConservativeState(base), BalancedState(base), AggressiveState(base)}

\* base states of the applications: every regime, a fresh and a stale listing, a
\* firm and a flexible landlord, one and three competitors, the lowest and the
\* highest property value, a neighbourhood average below and above the listing
ProbeBases ==
    { GameState(m, 2000, 2000, navg, days, s, level, value, 30, 1) :
        m \in MarketNames, navg \in {1700, 2300}, days \in {0, 40}, s \in {1, 3},
        level \in {1, 3}, value \in {1, 5} }

ProbeDecisions == {"None", "accept_tenant", "accept_competitor", "reject_all"}

\* the states evaluate is applied to: in round 1 and round 3, with and without a
\* tenant bid and a competitor bid, before and after each final decision.  A
\* final decision exists only for a state with a tenant bid (get_landlord_actions),
\* accept_competitor only with a competitor bid.
EvaluateStates ==
    { [t[1] EXCEPT !.round = t[2], !.user_bid = t[3],
                   !.highest_competitor_bid = t[4],
                   !.landlord_final_decision = t[5],
                   !.competitor_increase_forced = t[6]] :
        t \in { u \in (UNION {StrategyStatesOf(b) : b \in ProbeBases})
                      \X {1, 3} \X {None, 1700, 2000, 2300} \X {None, 1900, 2100}
                      \X ProbeDecisions \X BOOLEAN :
                  /\ u[5] # "None" => u[3] # None
                  /\ u[5] = "accept_competitor" => u[4] # None } }

EvaluateInputs ==
    { [fn |-> "evaluate", state |-> st, bid |-> None, higher_bid |-> None] :
        st \in EvaluateStates }

\* the bids calculate_win_probability_with_landlord is applied to (listing 2000)
ProbeBids == {1600, 1700, 1760, 1800, 1850, 1880, 1890, 1900, 1950, 2000, 2040,
              2100, 2200, 2400, 2700}

WinProbabilityStates ==
    { GameState(m, 2000, 2000, 2000, days, s, level, 3, 30, rnd) :
        m \in MarketNames, days \in {0, 5, 10, 20, 40}, s \in 1..3,
        level \in 1..3, rnd \in {1, 3} }

\* a state and two bids b1 <= b2
WinProbabilityInputs ==
    { [fn |-> "calculate_win_probability_with_landlord", state |-> t[1],
       bid |-> t[2], higher_bid |-> t[3]] :
        t \in { u \in WinProbabilityStates \X ProbeBids \X ProbeBids : u[2] <= u[3] } }

\* the states get_competitor_bid_distribution is applied to: every valid
\* market, three listing prices, every competitive level
DistributionStates ==
    { GameState(m, listing, listing, listing, 0, 2, level, 3, 30, 1) :
        m \in MarketNames, listing \in {1500, 2000, 2600}, level \in 1..3 }

DistributionInputs ==
    { [fn |-> "get_competitor_bid_distribution", state |-> st, bid |-> None,
       higher_bid |-> None] : st \in DistributionStates }

\* days on market on both sides of every threshold of get_staleness_discount
ProbeDays == {0, 7, 8, 14, 15, 30, 31, 365}

\* the arguments calculate_fair_market_value is applied to twice: a listing
\* (state.base_days = d1) and the same listing later (later_days = d2 > d1)
FairValueInputs ==
    { [fn |-> "calculate_fair_market_value",
       state |-> GameState(t[1], t[2], t[2], t[3], t[4], 2, 2, 3, 30, 1),
       bid |-> None, higher_bid |-> None, later_days |-> t[5]] :
        t \in { u \in MarketNames \X {1500, 2000, 2600} \X {1400, 2000, 2700}
                      \X ProbeDays \X ProbeDays : u[4] < u[5] } }

\* the arguments filter_landlord_actions is applied to: every sub-list of the
\* five action types (an accept action with a bid of 1 or of 2000 dollars) and
\* the profile of a landlord in every regime, at every desperation level and
\* with every price sensitivity
FilterInputs ==
    { [fn |-> "filter_landlord_actions",
       state |-> GameState(t[1], 2000, 2000, 2000, t[2], t[3], 2, 3, 30, 1),
       bid |-> None, higher_bid |-> None,
       actions |-> SelectSeq(<< Action("accept_tenant", t[4], None, None),
                                Action("accept_competitor", t[4], None, None),
                                Action("request_best_final", None, None, 40),
                                Action("counter_offer", None, 2000, None),
                                Action("reject_all", None, None, None) >>,
                             LAMBDA a : a.type \in t[5])] :
        t \in {"downtown", "cooling", "balanced", "very_hot"} \X {0, 5, 10, 20, 40}
              \X (1..3) \X {1, 2000}
              \X SUBSET {"accept_tenant", "accept_competitor", "request_best_final",
                         "counter_offer", "reject_all"} }

ApplyFilter ==
    /\ pc = "probe" /\ probe.fn = "filter_landlord_actions"
    /\ probe_out = <<>>
    /\ probe_out' = <<filter_landlord_actions(probe.actions, ProfileOf(probe.state))>>
    /\ UNCHANGED <<base_state, pc, strategy_states, k, stack, result, strategies, raw,
                   calls, first, probe>>

\* the states get_possible_bids is applied to: a listing at 2000 dollars in
\* every market, with a budget from three quarters of the listing price up,
\* at every risk level; in round 1, in round 3 without landlord feedback, and
\* in round 3 after a request for best and final offers, with a previous bid,
\* with only a user bid, and with neither
PossibleBidsInputs ==
    LET RoundOne == { GameState(m, 2000, b, 2000, 0, 2, 2, 3, r, 1) :
                        m \in MarketNames, b \in {1500, 1700, 1800, 2000, 2500},
                        r \in {10, 15, 20, 30, 40, 45, 50} }
        Requested == { handle_round_3(s, "request_best_final", None, u) :
                         s \in RoundOne, u \in {None, 1780, 1900, 1990} }
    IN  { [fn |-> "get_possible_bids", state |-> s, bid |-> None, higher_bid |-> None] :
            s \in RoundOne \cup { [t EXCEPT !.round = 3] : t \in RoundOne }
                  \cup Requested
                  \cup { [t EXCEPT !.previous_bid = None] : t \in Requested } }

ApplyPossibleBids ==
    /\ pc = "probe" /\ probe.fn = "get_possible_bids"
    /\ probe_out = <<>>
    /\ probe_out' = <<get_possible_bids(probe.state)>>
    /\ UNCHANGED <<base_state, pc, strategy_states, k, stack, result, strategies, raw,
                   calls, first, probe>>

\* the listings a LandlordProfile is built for: every regime and price
\* sensitivity, and two ages d1 < d2 on either side of each step of
\* calculate_desperation
ProfileInputs ==
    { [fn |-> "LandlordProfile",
       state |-> GameState(t[1], 2000, 2000, 2000, t[3], t[2], 2, 3, 30, 1),
       bid |-> None, higher_bid |-> None, later_days |-> t[4]] :
        t \in { u \in MarketNames \X (1..3)
                        \X {0, 2, 3, 4, 6, 7, 11, 13, 14, 27, 29, 30, 365}
                        \X {2, 3, 4, 6, 7, 11, 13, 14, 27, 29, 30, 365, 366} :
                    u[3] < u[4] } }

\* the profile at d1, the profile at d2, and the profile of the round-3
\* successor of the state at d1
ApplyProfile ==
    /\ pc = "probe" /\ probe.fn = "LandlordProfile"
    /\ probe_out = <<>>
    /\ probe_out' = << ProfileOf(probe.state),
                       ProfileOf([probe.state EXCEPT !.base_days = probe.later_days]),
                       ProfileOf([probe.state EXCEPT !.round = 3]) >>
    /\ UNCHANGED <<base_state, pc, strategy_states, k, stack, result, strategies, raw,
                   calls, first, probe>>

ApplyEvaluate ==
    /\ pc = "probe" /\ probe.fn = "evaluate" /\ probe_out = <<>>
    /\ probe_out' = <<evaluate(probe.state)>>
    /\ UNCHANGED <<base_state, pc, strategy_states, k, stack, result, strategies, raw,
                   calls, first, probe>>

ApplyWinProbability ==
    /\ pc = "probe" /\ probe.fn = "calculate_win_probability_with_landlord"
    /\ probe_out = <<>>
    /\ probe_out' = << calculate_win_probability_with_landlord(probe.bid, probe.state),
                       calculate_win_probability_with_landlord(probe.higher_bid,
                                                               probe.state) >>
    /\ UNCHANGED <<base_state, pc, strategy_states, k, stack, result, strategies, raw,
                   calls, first, probe>>

ApplyDistribution ==
    /\ pc = "probe" /\ probe.fn = "get_competitor_bid_distribution"
    /\ probe_out = <<>>
    /\ probe_out' = <<get_competitor_bid_distribution(probe.state)>>
    /\ UNCHANGED <<base_state, pc, strategy_states, k, stack, result, strategies, raw,
                   calls, first, probe>>

ApplyFairValue ==
    /\ pc = "probe" /\ probe.fn = "calculate_fair_market_value"
    /\ probe_out = <<>>
    /\ probe_out' = << calculate_fair_market_value(
                           probe.state.listing_price, probe.state.neighborhood_avg,
                           probe.state.base_days, probe.state.market_params),
                       calculate_fair_market_value(
                           probe.state.listing_price, probe.state.neighborhood_avg,
                           probe.later_days, probe.state.market_params) >>
    /\ UNCHANGED <<base_state, pc, strategy_states, k, stack, result, strategies, raw,
                   calls, first, probe>>

InitFunctions ==
    /\ probe \in EvaluateInputs \cup WinProbabilityInputs \cup DistributionInputs
                \cup FairValueInputs \cup FilterInputs
                \cup PossibleBidsInputs \cup ProfileInputs
    /\ probe_out = <<>>
    /\ base_state = probe.state
    /\ pc = "probe" /\ strategy_states = <<>> /\ k = 1 /\ stack = <<>>
    /\ result = [value |-> 0, bid |-> None]
    /\ strategies = <<>> /\ raw = <<>> /\ calls = 0 /\ first = <<>>

NextFunctions ==
    \/ ApplyEvaluate \/ ApplyWinProbability \/ ApplyDistribution \/ ApplyFairValue
    \/ ApplyFilter \/ ApplyPossibleBids \/ ApplyProfile

SpecFunctions == InitFunctions /\ [][NextFunctions]_vars

----------------------------------------------------------------------------
(* Properties *)

\* generate_three_strategies has returned its mapping
Returned == pc = "returned" /\ Len(strategies) = 3

InRange(v) == IsFinite(v) /\ 0 - ONE <= v /\ v <= ONE

\* C1: the bids recorded by generate_three_strategies are ordered:
\* conservative bid <= balanced bid <= aggressive bid.
C1_BidsOrdered ==
    Returned => /\ strategies[1].bid <= strategies[2].bid
                /\ strategies[2].bid <= strategies[3].bid

\* C2: every recorded bid, whether it comes from the search, from the None-bid
\* fallback or from the differentiation nudge, lies within
\* [0, max_budget * 1.10].
C2_BidsWithinFlexibleBudget ==
    \A i \in 1..Len(strategies) :
        /\ 0 <= strategies[i].bid
        /\ 1000 * strategies[i].bid <= FlexibleBudget(base_state)

\* C2 witness: a call has returned in which the search gave no bid for any
\* strategy: the conservative record holds the fallback bid, and the balanced and
\* aggressive records hold fallback bids that were nudged.
C2_FallbackAndNudgeRecorded ==
    /\ Returned
    /\ \A i \in 1..3 : raw[i].search_bid = None
    /\ strategies[1].bid = raw[1].bid
    /\ strategies[2].bid > raw[2].bid
    /\ strategies[3].bid > raw[3].bid

\* C3: the payoff_value of every recommendation record lies in [-1, 1]; the
\* value the search returns is never +infinity or -infinity.
C3_PayoffValueInRange ==
    /\ \A i \in 1..Len(strategies) : InRange(strategies[i].payoff_value)
    /\ pc = "record" => InRange(result.value)

\* C4: get_landlord_actions returns the empty list if and only if the state has
\* no tenant bid; stated of the node of every activation of the search.
C4_LandlordActionsEmptyIffNoBid ==
    \A j \in 1..Len(stack) :
        (get_landlord_actions(stack[j].node) = <<>>) <=> (stack[j].node.user_bid = None)

\* C5: whenever the raw bid of a later strategy is within $20 of an earlier
\* strategy's recorded bid, the later strategy's recorded bid is strictly greater
\* than that earlier recorded bid; the three recorded bids are pairwise distinct.
C5_BidsDifferentiated ==
    Returned =>
        /\ \A i \in 1..3 : \A j \in 1..3 :
              (i < j /\ Abs(raw[j].bid - strategies[i].bid) < 20)
                  => strategies[j].bid > strategies[i].bid
        /\ strategies[1].bid # strategies[2].bid
        /\ strategies[2].bid # strategies[3].bid
        /\ strategies[1].bid # strategies[3].bid

C7_WinProbabilityMonotone ==
    (pc = "probe" /\ probe.fn = "calculate_win_probability_with_landlord"
     /\ probe_out # <<>>)
        => /\ probe_out[1] <= probe_out[2]
           /\ 0 <= probe_out[1] /\ probe_out[2] <= ONE

\* C7 witness: the function was applied to two bids on either side of the
\* landlord's acceptance threshold, and the higher bid has the strictly higher
\* win probability.
C7_AppliedAcrossThreshold ==
    /\ pc = "probe" /\ probe.fn = "calculate_win_probability_with_landlord"
    /\ probe_out # <<>>
    /\ probe.bid < probe.higher_bid
    /\ ~RatioGe(probe.bid, probe.state.listing_price,
                ProfileOf(probe.state).acceptance_threshold)
    /\ RatioGe(probe.higher_bid, probe.state.listing_price,
               ProfileOf(probe.state).acceptance_threshold)
    /\ 0 < probe_out[1] /\ probe_out[1] < probe_out[2]

\* C8: evaluate returns a value in [-1, 1]: for a terminal state with
\* accept_tenant, accept_competitor (with or without the
\* competitor_increase_forced bonus) or reject_all, and for a non-terminal state
\* with or without a tenant bid or a competitor bid.
C8_EvaluateInRange ==
    (pc = "probe" /\ probe.fn = "evaluate" /\ probe_out # <<>>)
        => InRange(probe_out[1])

\* C8 witness: evaluate was applied to an accepted tenant bid whose payoff
\* reaches the upper limit 1.
C8_EvaluatedAtLimit ==
    /\ pc = "probe" /\ probe.fn = "evaluate" /\ probe_out # <<>>
    /\ probe.state.landlord_final_decision = "accept_tenant"
    /\ probe_out[1] = ONE

\* C9: when the search returns no bid for a strategy, the record's bid is the
\* strategy's fallback bid and its payoff_value is the evaluation of the state
\* with that fallback bid.
C9_FallbackRecomputed ==
    Returned =>
        \A i \in 1..3 :
            raw[i].search_bid = None =>
                LET fallback == FallbackBid(StrategyNames[i], strategy_states[i])
                IN  /\ strategies[i].bid = fallback
                    /\ strategies[i].payoff_value
                         = evaluate(make_tenant_bid(strategy_states[i], fallback))

\* an activation at a tenant_max node in round 3 after a counter-offer with a
\* counter price
CounterOfferFrame(f) ==
    /\ f.player_type = "tenant_max"
    /\ f.node.round = 3 /\ f.node.landlord_feedback = "counter_offer"
    /\ f.node.counter_price # None

\* C10: at a tenant_max node in round 3 after a counter-offer, the candidate bids
\* are exactly the counter price and the tenant's original bid, and the child the
\* node recurses into carries one of the two.
C10_CounterOfferCandidates ==
    \A j \in 1..Len(stack) :
        CounterOfferFrame(stack[j]) =>
            LET f == stack[j]
                candidates == {f.node.counter_price, f.node.user_bid}
            IN  /\ f.at = "loop" =>
                      /\ Len(f.items) = 2
                      /\ {f.items[n] : n \in 1..Len(f.items)} = candidates
                /\ j < Len(stack) => stack[j + 1].node.user_bid \in candidates

\* C10 witness: a counter-offer node below the root (the landlord countered the
\* round-1 bid inside the search) has gone through both of its candidates.
C10_CounterOfferNodeSearched ==
    \E j \in 2..Len(stack) :
        /\ CounterOfferFrame(stack[j])
        /\ stack[j].at = "loop" /\ stack[j].i > 2
        /\ stack[j].node.counter_price # stack[j].node.user_bid

\* C11: a configuration error (market parameters outside their ranges, a
\* non-positive monetary value, an out-of-range competitive_level, price
\* sensitivity, property value or risk tolerance) makes
\* generate_three_strategies fail before any tree search: no child node is ever
\* expanded or evaluated (only the root activation can be on the stack, and it
\* never reaches its loop) and no recommendation record is produced.
C11_ConfigurationErrorFailsFast ==
    ~ValidConfiguration(base_state) =>
        /\ Len(stack) <= 1
        /\ \A i \in 1..Len(stack) : stack[i].at = "enter"
        /\ strategies = <<>>
        /\ pc # "returned"

\* the distribution get_competitor_bid_distribution returned for probe.state
DistributionReturned ==
    /\ pc = "probe" /\ probe.fn = "get_competitor_bid_distribution"
    /\ probe_out # <<>>

\* C12: for valid market parameters and a competitive_level in 1..3,
\* get_competitor_bid_distribution returns NUM_BID_SAMPLES (bid, probability)
\* pairs over the sample points of the bid range; every probability is >= 0 and
\* the probabilities sum to 1 (here: to ONE, up to the truncation of each of the
\* NUM_BID_SAMPLES quotients); when every order-statistics mass is 0 the
\* probabilities are uniform.  (The first sample point is never more than two
\* sigma below the median, so its mass is positive for every valid parameter
\* set and the uniform branch of lines 50-53 is not taken.)
C12_DistributionNormalized ==
    DistributionReturned =>
        LET dist   == probe_out[1]
            masses == calculate_order_statistics(probe.state.market_params,
                                                 probe.state.competitive_level)
            range  == get_dynamic_bid_range(probe.state.listing_price,
                                            probe.state.market_params)
        IN  /\ Len(dist) = NUM_BID_SAMPLES
            /\ \A i \in 1..Len(dist) : dist[i].prob >= 0 /\ dist[i].bid = range[i]
            /\ Abs(SumSeq([i \in 1..Len(dist) |-> dist[i].prob]) - ONE)
                    < NUM_BID_SAMPLES
            /\ SumSeq(masses) = 0 =>
                    \A i \in 1..Len(dist) : dist[i].prob = ONE \div NUM_BID_SAMPLES

\* C12 witness: the function was applied with three competitors to a market
\* whose bid range runs downwards, where the differences of the order
\* statistics are negative before they are cut at 0: the first sample point
\* carries all the probability.
C12_AppliedToDescendingRange ==
    /\ DistributionReturned
    /\ probe.state.competitive_level = 3
    /\ probe_out[1][1].bid > probe_out[1][2].bid
    /\ probe_out[1][1].prob = ONE
    /\ \A i \in 2..NUM_BID_SAMPLES : probe_out[1][i].prob = 0

\* calculate_fair_market_value returned for base_days and for later_days
FairValueReturned ==
    /\ pc = "probe" /\ probe.fn = "calculate_fair_market_value"
    /\ probe_out # <<>>

\* C13: staleness never increases the fair value: for a fixed listing price,
\* neighbourhood average and market parameters, d2 > d1 >= 0 implies
\* calculate_fair_market_value(d2) <= calculate_fair_market_value(d1).
C13_StalenessNeverIncreasesFairValue ==
    (FairValueReturned /\ 0 <= probe.state.base_days
                       /\ probe.state.base_days < probe.later_days)
        => probe_out[2] <= probe_out[1]

\* C13 witness: the function was applied to a listing of a cooling or very cool
\* market within its first week and again after more than a month, and the
\* later fair value is strictly lower.
C13_AppliedAcrossThresholds ==
    /\ FairValueReturned
    /\ classify_market_conditions(probe.state.market_params)
           \in {"very_cool", "cooling"}
    /\ probe.state.base_days <= 7 /\ probe.later_days > 30
    /\ probe_out[2] < probe_out[1]

\* C14: for every days_on_market >= 0, every regime and every price sensitivity
\* in 1..3, the acceptance_threshold of the LandlordProfile lies in [0.90, 1.05]
\* (here: the profile calculate_win_probability_with_landlord built for the
\* state it was applied to).
C14_AcceptanceThresholdInRange ==
    (pc = "probe" /\ probe.fn = "calculate_win_probability_with_landlord"
     /\ probe_out # <<>>)
        => LET landlord_profile == ProfileOf(probe.state)
           IN  /\ landlord_profile.days_on_market >= 0
               /\ landlord_profile.price_sensitivity \in 1..3
               /\ (90 * TEN7) \div 100 <= landlord_profile.acceptance_threshold
               /\ landlord_profile.acceptance_threshold <= (105 * TEN7) \div 100

\* C15: pruning is sound: the value a root call of expectiminimax_with_landlord
\* returns with the alpha-beta cutoffs and the probabilistic early stopping
\* equals the value of the same search over the same candidates with every
\* cutoff disabled.
C15_PruningSound ==
    pc = "record" =>
        result.value = FullValue(strategy_states[k], TREE_DEPTH, "tenant_max")

\* C16: the depth cutoff applies only at tenant_max nodes: an activation for a
\* non-terminal competitor_chance or landlord_min node entered with depth 0 does
\* not return the evaluation of the node itself; its next step enters its loop
\* over the node's children.
C16_DepthCutoffOnlyAtTenant ==
    [][ ( /\ Searching /\ Top.at = "enter" /\ Top.depth = 0
          /\ ~is_terminal(Top.node)
          /\ Top.player_type \in {"competitor_chance", "landlord_min"} )
        => ( /\ Len(stack') = Len(stack)
             /\ stack'[Len(stack)].at = "loop" ) ]_vars

\* C17: once the tenant's final bid is submitted (all_final_bids_submitted is
\* set on the state), every action get_landlord_actions returns for the state
\* is a final decision: request_best_final and counter_offer are not offered
\* again (here: for every landlord_min activation of the search that has
\* fetched its actions).
C17_OnlyFinalDecisionsAfterFinalBid ==
    \A i \in 1..Len(stack) :
        ( /\ stack[i].player_type = "landlord_min" /\ stack[i].at = "loop"
          /\ stack[i].node.all_final_bids_submitted )
        => \A j \in 1..Len(stack[i].items) :
               stack[i].items[j].type
                   \in {"accept_tenant", "accept_competitor", "reject_all"}

\* C18: turn order on every path of the search (every pair of a caller and its
\* callee on the stack): a tenant_max node at round 1 is followed by a
\* competitor_chance node, a competitor_chance node by a landlord_min node, a
\* tenant_max node at round 3 by a landlord_min node, and a landlord_min node by
\* a tenant_max node, only through request_best_final or counter_offer and only
\* in a state with round = 3; round is always 1 or 3 and at most one
\* competitor_chance node is on a path.
C18_TurnOrder ==
    /\ \A i \in 1..Len(stack) : stack[i].node.round \in {1, 3}
    /\ Cardinality({i \in 1..Len(stack) :
                        stack[i].player_type = "competitor_chance"}) <= 1
    /\ \A i \in 1..(Len(stack) - 1) :
          LET parent == stack[i]
              child  == stack[i + 1]
          IN  /\ parent.at = "loop"
              /\ (parent.player_type = "tenant_max" /\ parent.node.round = 1)
                    => child.player_type = "competitor_chance"
              /\ parent.player_type = "competitor_chance"
                    => child.player_type = "landlord_min"
              /\ (parent.player_type = "tenant_max" /\ parent.node.round = 3)
                    => child.player_type = "landlord_min"
              /\ parent.player_type = "landlord_min"
                    => /\ child.player_type = "tenant_max"
                       /\ parent.items[parent.i].type
                              \in {"request_best_final", "counter_offer"}
                       /\ child.node.landlord_feedback = parent.items[parent.i].type
                       /\ child.node.round = 3

\* C18 witness: a path of five nodes from a round-1 root: the tenant's bid, the
\* competitors' bid, the landlord's feedback, the tenant's final bid and the
\* landlord again.
C18_FullPathSearched ==
    /\ Len(stack) = 5
    /\ stack[1].player_type = "tenant_max" /\ stack[1].node.round = 1
    /\ stack[2].player_type = "competitor_chance"
    /\ stack[3].player_type = "landlord_min"
    /\ stack[4].player_type = "tenant_max" /\ stack[4].node.round = 3
    /\ stack[5].player_type = "landlord_min"

\* the states a landlord_min activation creates: one per action it fetched
LandlordChildren(f) ==
    {[action |-> f.items[j], child |-> apply_landlord_decision(f.node, f.items[j])] :
        j \in 1..Len(f.items)}

\* C19: in every state created during the search, landlord_final_decision is
\* set exactly when the landlord applied accept_tenant, accept_competitor or
\* reject_all (and then names that action); won_property is true iff
\* landlord_final_decision = accept_tenant; a state whose
\* landlord_final_decision is set is never expanded: no activation is in its
\* loop on such a state, and no state an activation was called with has it set.
C19_FinalDecisionStates ==
    \A i \in 1..Len(stack) :
        LET f == stack[i]
        IN  /\ f.at = "loop" => ~is_terminal(f.node)
            /\ f.node.landlord_final_decision = "None"
            /\ f.node.won_property <=> f.node.landlord_final_decision = "accept_tenant"
            /\ (f.player_type = "landlord_min" /\ f.at = "loop") =>
                  \A c \in LandlordChildren(f) :
                      /\ c.child.landlord_final_decision # "None"
                            <=> c.action.type \in {"accept_tenant",
                                                   "accept_competitor", "reject_all"}
                      /\ c.child.landlord_final_decision # "None"
                            => c.child.landlord_final_decision = c.action.type
                      /\ c.child.won_property
                            <=> c.child.landlord_final_decision = "accept_tenant"

\* C19 witness: a landlord_min activation that created, from one node, a state
\* with a final decision in the tenant's favour and a state that continues
\* into round 3 after a counter-offer, and has taken the value of one of them.
C19_FinalAndContinuingChildren ==
    /\ Searching /\ Top.player_type = "landlord_min" /\ Top.at = "loop"
    /\ \E c \in LandlordChildren(Top) : c.child.won_property
    /\ \E c \in LandlordChildren(Top) :
           /\ c.action.type = "counter_offer"
           /\ c.child.landlord_final_decision = "None"
    /\ Top.i > 1

\* the fields the branch of a node of the given player type writes to the child
WrittenFields(player_type) ==
    CASE player_type = "tenant_max" -> {"user_bid", "all_final_bids_submitted"}
      [] player_type = "competitor_chance" -> {"highest_competitor_bid"}
      [] player_type = "landlord_min" ->
            {"round", "landlord_feedback", "counter_price", "min_increase",
             "landlord_final_decision", "won_property"}

\* C20: copy-on-branch: no step of the search changes the node of an
\* activation that stays on the stack (the node a call was given is the same
\* when the call returns, and while its children are explored), and a child a
\* call recurses into has the fields of its parent's node except those the
\* branch itself writes: nothing written while an earlier child was explored
\* is visible in it.
C20_CopyOnBranch ==
    [][ /\ \A i \in 1..Min2(Len(stack), Len(stack')) :
              stack'[i].node = stack[i].node
        /\ (Len(stack) >= 1 /\ Len(stack') = Len(stack) + 1) =>
              LET parent == stack[Len(stack)]
                  child  == stack'[Len(stack')]
              IN  \A field \in DOMAIN parent.node \ WrittenFields(parent.player_type) :
                      child.node[field] = parent.node[field] ]_vars

\* C20 witness: the chance node under the root is exploring its second or a
\* later child, and the states on the path differ in the fields written on the
\* way down: the root has no tenant bid, the chance node has the tenant's bid
\* and no competitor bid, its child has both.
C20_SiblingExplored ==
    /\ Len(stack) >= 3
    /\ stack[2].player_type = "competitor_chance" /\ stack[2].i >= 2
    /\ stack[1].node.user_bid = None
    /\ stack[2].node.user_bid # None /\ stack[2].node.highest_competitor_bid = None
    /\ stack[3].node.highest_competitor_bid # None

\* C21: strategy biasing is monotonic: for a base state with risk_tolerance in
\* [1, 5], in round 1 and in round 3, the three derived states satisfy
\* risk_tolerance(conservative) <= risk_tolerance(balanced) <=
\* risk_tolerance(aggressive), and the balanced state has the base state's
\* risk_tolerance.
C21_RiskToleranceMonotone ==
    (strategy_states # <<>> /\ base_state.risk_tolerance \in 10..50) =>
        /\ strategy_states[1].risk_tolerance <= strategy_states[2].risk_tolerance
        /\ strategy_states[2].risk_tolerance <= strategy_states[3].risk_tolerance
        /\ strategy_states[2].risk_tolerance = base_state.risk_tolerance

\* an accept action whose bid-to-asking ratio is below acceptance_threshold * 1.02
AcceptBelowFirmRatio(action, state) ==
    /\ action.type \in {"accept_tenant", "accept_competitor"}
    /\ ~RatioGe(action.bid, state.listing_price,
                (ProfileOf(state).acceptance_threshold * 102) \div 100)

\* C22: for a firm landlord (price_sensitivity = 1), whenever at least one other
\* action survives filtering, the list get_landlord_actions returns contains no
\* accept_tenant or accept_competitor action whose bid-to-asking ratio is below
\* acceptance_threshold * 1.02 (here: the list every landlord_min activation
\* fetched).
C22_FirmLandlordDropsLowAccepts ==
    \A i \in 1..Len(stack) :
        LET f == stack[i]
        IN  ( /\ f.player_type = "landlord_min" /\ f.at = "loop"
              /\ f.node.price_sens_landlord = 1
              /\ \E j \in 1..Len(f.items) : ~AcceptBelowFirmRatio(f.items[j], f.node) )
            => \A j \in 1..Len(f.items) : ~AcceptBelowFirmRatio(f.items[j], f.node)

C24_AcceptNamesHigherBidder ==
    \A i \in 1..Len(stack) :
        LET f          == stack[i]
            tenant     == f.node.user_bid
            competitor == f.node.highest_competitor_bid
            higher     == IF competitor # None /\ competitor > tenant
                          THEN competitor ELSE tenant
            Has(type)  == \E j \in 1..Len(f.items) : f.items[j].type = type
        IN  (f.player_type = "landlord_min" /\ f.at = "loop") =>
                /\ ~(Has("accept_tenant") /\ Has("accept_competitor"))
                /\ Has("accept_competitor") => (competitor # None /\ competitor > tenant)
                /\ Has("accept_tenant") => (competitor = None \/ tenant >= competitor)
                /\ (Has("accept_tenant") \/ Has("accept_competitor")) =>
                       RatioGe(higher, f.node.listing_price,
                               ProfileOf(f.node).acceptance_threshold)
                /\ \A j \in 1..Len(f.items) :
                       /\ f.items[j].type = "accept_tenant" => f.items[j].bid = tenant
                       /\ f.items[j].type = "accept_competitor"
                              => f.items[j].bid = competitor

\* C24 witness: a landlord node whose tenant and competitor bids are equal and
\* whose actions hold accept_tenant.
C24_TieAcceptsTenant ==
    \E i \in 1..Len(stack) :
        /\ stack[i].player_type = "landlord_min" /\ stack[i].at = "loop"
        /\ stack[i].node.user_bid = stack[i].node.highest_competitor_bid
        /\ \E j \in 1..Len(stack[i].items) : stack[i].items[j].type = "accept_tenant"

\* get_possible_bids has returned for a state of the given round and feedback
PossibleBidsReturned(rounds, feedback) ==
    /\ pc = "probe" /\ probe.fn = "get_possible_bids" /\ probe_out # <<>>
    /\ probe.state.round \in rounds /\ probe.state.landlord_feedback = feedback

\* C25: for round 1, and round 3 without landlord feedback, every candidate bid
\* returned by get_possible_bids lies within [0.85 * listing_price,
\* max_budget * 1.10], the degenerate-window fallback included (a candidate is
\* held to the nearest dollar, so half a dollar is allowed at each end).
C25_CandidatesWithinWindow ==
    PossibleBidsReturned({1, 3}, "None") =>
        \A j \in 1..Len(probe_out[1]) :
            /\ 1000 * probe_out[1][j] + 500 >= 850 * probe.state.listing_price
            /\ 1000 * probe_out[1][j] - 500 <= FlexibleBudget(probe.state)

\* C26: for round 3 after request_best_final, get_possible_bids returns at
\* least 10 candidates, each between 2% and 10% above the reference bid
\* (previous_bid if set, else user_bid, else 0.98 * listing_price), also when
\* 1.02 * reference exceeds the flexible budget (a candidate is held to the
\* nearest dollar, so half a dollar is allowed at each end).
C26_FinalCandidatesAboveReference ==
    PossibleBidsReturned({3}, "request_best_final") =>
        LET state     == probe.state
            \* the reference bid in thousandths of a dollar
            reference == IF Truthy(state.previous_bid) THEN 1000 * state.previous_bid
                         ELSE IF state.user_bid # None THEN 1000 * state.user_bid
                         ELSE 980 * state.listing_price
        IN  /\ Len(probe_out[1]) >= 10
            /\ \A j \in 1..Len(probe_out[1]) :
                   /\ 100 * (1000 * probe_out[1][j] + 500) >= 102 * reference
                   /\ 100 * (1000 * probe_out[1][j] - 500) <= 110 * reference

\* C26 witness: the candidates were returned for a reference bid whose 2%
\* raise is above the flexible budget.
C26_ReferenceAboveFlexibleBudget ==
    /\ PossibleBidsReturned({3}, "request_best_final")
    /\ probe.state.previous_bid # None
    /\ 102 * 1000 * probe.state.previous_bid > 100 * FlexibleBudget(probe.state)

\* C27: the landlord becomes more flexible over time: for a fixed regime and
\* price sensitivity, d2 > d1 >= 0 implies desperation_factor(d2) >=
\* desperation_factor(d1), with desperation_factor always in [0.1, 0.95], and
\* acceptance_threshold(d2) <= acceptance_threshold(d1); the same holds between
\* a round-1 state and its round-3 successor, listed 3 days longer.
C27_LandlordMoreFlexibleOverTime ==
    (pc = "probe" /\ probe.fn = "LandlordProfile" /\ probe_out # <<>>) =>
        /\ \A j \in 1..3 : /\ probe_out[j].desperation_factor >= 10
                           /\ probe_out[j].desperation_factor <= 95
        /\ \A j \in 2..3 :
               /\ probe_out[j].desperation_factor >= probe_out[1].desperation_factor
               /\ probe_out[j].acceptance_threshold <= probe_out[1].acceptance_threshold

\* C27 witness: profiles were built for a listing whose round-3 successor is
\* more desperate and accepts a lower ratio than the round-1 state, and so does
\* the listing at the later age.
C27_ThresholdFallsWithAge ==
    /\ pc = "probe" /\ probe.fn = "LandlordProfile" /\ probe_out # <<>>
    /\ probe.later_days > probe.state.base_days
    /\ \A j \in 2..3 :
           /\ probe_out[j].desperation_factor > probe_out[1].desperation_factor
           /\ probe_out[j].acceptance_threshold < probe_out[1].acceptance_threshold

\* C28: in round 3 after a request for best and final offers, every bid recorded
\* by generate_three_strategies (conservative, balanced and aggressive, a bid
\* substituted by the None-bid fallback included) is at least 2% above the
\* tenant's previous bid.
C28_FinalBidAbovePreviousBid ==
    (base_state.round = 3 /\ base_state.landlord_feedback = "request_best_final"
     /\ base_state.previous_bid # None) =>
        \A j \in 1..Len(strategies) :
            100 * strategies[j].bid >= 102 * base_state.previous_bid

C30_DepthDecreasesToZero ==
    /\ Len(stack) <= TREE_DEPTH + 1
    /\ stack # <<>> => stack[1].depth = TREE_DEPTH
    /\ \A i \in 1..Len(stack) :
           /\ stack[i].depth >= 0
           /\ i > 1 => stack[i].depth = stack[i - 1].depth - 1
           /\ stack[i].at = "loop" => stack[i].depth > 0

\* C30 witness: a path of 5 nodes that starts in round 1, runs through a
\* landlord's request_best_final or counter_offer and ends at depth 0.
C30_DeepestPath ==
    /\ Len(stack) = TREE_DEPTH + 1
    /\ Top.depth = 0
    /\ stack[1].node.round = 1
    /\ \E i \in 2..Len(stack) :
           /\ stack[i].node.round = 3
           /\ stack[i].node.landlord_feedback \in {"request_best_final", "counter_offer"}

====
